---------------------------- MODULE Spec2Model ----------------------------
(***************************************************************************)
(* The booking service (src/unnamed/part_002, src/booking/                 *)
(* auth_middleware.go): the Booking API behind the JWT middleware, the     *)
(* detached RabbitMQ notification goroutine, and the Kafka consumer that   *)
(* projects restaurant events into the restaurants_cache table.            *)
(***************************************************************************)
EXTENDS Integers, Sequences, FiniteSets, TLC

(***************************************************************************)
(* Bounds of the model.                                                    *)
(***************************************************************************)
MaxBookings == 1      \* rows the bookings table may hold
MaxStream == 4        \* records ever written to the restaurants topic
MaxPending == 1       \* records written to the topic and not yet read
MaxNow == 1           \* ticks of the store's clock
MaxRestaurants == 2   \* rows the restaurants table is ever given
MaxQueue == 2         \* messages of other publishers the queue holds at once

(***************************************************************************)
(* Request inputs.  A token is what jwt.Parse looks at: whether it has the *)
(* three-segment shape, the declared algorithm (as characters, the code    *)
(* slices it), whether the signature is the HMAC of the shared secret,     *)
(* whether its exp claim is in the past, and the subject.                  *)
(***************************************************************************)
HS256 == <<"H", "S", "2", "5", "6">>
HS512 == <<"H", "S", "5", "1", "2">>
RS256 == <<"R", "S", "2", "5", "6">>
AlgNone == <<"n", "o", "n", "e">>

Token(shape, alg, sig, expired, sub) ==
    [shape |-> shape, alg |-> alg, sig |-> sig, expired |-> expired, sub |-> sub]

NoToken == Token(FALSE, <<>>, FALSE, FALSE, "")

\* An Authorization header: the words around the first space, and the token.
Header(parts, token) == [parts |-> parts, token |-> token]

NoHeader == Header(<<>>, NoToken)
GoodAlice == Header(<<"Bearer", "t">>, Token(TRUE, HS256, TRUE, FALSE, "alice"))
GoodBob == Header(<<"bearer", "t">>, Token(TRUE, HS512, TRUE, FALSE, "bob"))
OnePart == Header(<<"Bearer">>, NoToken)
BasicScheme == Header(<<"Basic", "t">>, Token(TRUE, HS256, TRUE, FALSE, "alice"))
Garbage == Header(<<"Bearer", "t">>, NoToken)
BadSig == Header(<<"Bearer", "t">>, Token(TRUE, HS256, FALSE, FALSE, "alice"))
Expired == Header(<<"Bearer", "t">>, Token(TRUE, HS256, TRUE, TRUE, "alice"))
AlgRS == Header(<<"Bearer", "t">>, Token(TRUE, RS256, TRUE, FALSE, "alice"))
AlgNoneHdr == Header(<<"Bearer", "t">>, Token(TRUE, AlgNone, TRUE, FALSE, "alice"))

GoodHeaders == {GoodAlice, GoodBob}
BadHeaders == {NoHeader, OnePart, BasicScheme, Garbage, BadSig, Expired, AlgRS, AlgNoneHdr}
Headers == GoodHeaders \cup BadHeaders
TwoHeaders == {GoodAlice, Expired}

\* A time.Time of a request body: the instant and the zone offset it was written in.
When(instant, offset) == [instant |-> instant, offset |-> offset]

\* type Booking: the decoded JSON body; a field the body leaves out is Go's zero.
Booking(id, rid, user, people, when) ==
    [id |-> id, restaurant_id |-> rid, user |-> user, people |-> people, when |-> when]

\* The bodies requests carry: with and without an id, written in UTC and in
\* another zone, and with a party size that is not positive.
Bodies ==
    {Booking(0, 1, "alice", 2, When(19, 0)), Booking(1, 1, "alice", 2, When(19, 2)),
     Booking(0, 1, "alice", 0, When(19, 0)), Booking(0, 1, "alice", -1, When(19, 0))}
OneBody == {Booking(0, 1, "alice", 2, When(19, 0))}
\* Bodies that book restaurant 1 and restaurant 2.
SysBodies == {Booking(0, 1, "alice", 2, When(19, 0)), Booking(0, 2, "alice", 2, When(19, 0))}
GetIds == 0 .. MaxBookings + 1

StatusOK == 200
StatusCreated == 201
StatusNoContent == 204
StatusBadRequest == 400
StatusUnauthorized == 401
StatusNotFound == 404
StatusInternalServerError == 500

\* type Restaurant of the restaurants service: the decoded JSON body of
\* createRestaurant; a body without "id" leaves ID at Go's zero.
Restaurant(id, name, city, seats) ==
    [id |-> id, name |-> name, city |-> city, seats |-> seats]

\* The bodies createRestaurant is sent: without an id, and with the id the
\* table is about to assign.
RestaurantBodies == {Restaurant(0, "A", "Cluj", 10), Restaurant(2, "B", "Cluj", 10)}
OneRestaurant == {Restaurant(0, "A", "Cluj", 10)}

\* The {id} of DELETE /api/restaurants/{id}.
DeleteIds == {1, 2}

\* The row of the restaurants table the bookings of the model refer to.
InitialRestaurant == [name |-> "A", city |-> "Cluj", seats |-> 10]

(***************************************************************************)
(* jwtAuthMiddleware                                                       *)
(***************************************************************************)
ToLower(s) ==
    CASE s \in {"Bearer", "BEARER", "bearer"} -> "bearer"
      [] s = "Basic" -> "basic"
      [] OTHER -> s

\* t.Method.Alg()[:2] != "HS" in the key function.
KeyFunc(t) == SubSeq(t.alg, 1, 2) = <<"H", "S">>

\* The claims validation of jwt.Parse: an exp in the past is an error.
ClaimsValidMut(t) == TRUE
ClaimsValid(t) == ~t.expired

\* The signature check of jwt.Parse with the []byte secret as key: only an HMAC
\* method accepts that key type, and then the signature must match.
Verify(t) == SubSeq(t.alg, 1, 2) = <<"H", "S">> /\ t.sig

\* jwt.Parse: token shape, key function, signature, then the claims; the
\* middleware answers 401 on err != nil || !token.Valid.
JwtParse(t) == t.shape /\ KeyFunc(t) /\ Verify(t) /\ ClaimsValid(t)

\* TRUE when the middleware calls next.ServeHTTP, FALSE when it answers 401.
jwtAuthMiddleware(h) ==
    IF h.parts = <<>> THEN FALSE
    ELSE IF Len(h.parts) # 2 \/ ToLower(h.parts[1]) # "bearer" THEN FALSE
    ELSE JwtParse(h.token)

(***************************************************************************)
(* Restaurant events on the Kafka topic.  idk tells how data.id is written *)
(* in the JSON: as a number, or as a string (deleteRestaurant of the       *)
(* restaurants service marshals map[string]string{"id": id}).              *)
(***************************************************************************)
Rec(json, type, idk, id, name, city, seats) ==
    [json |-> json, type |-> type, idk |-> idk, id |-> id,
     name |-> name, city |-> city, seats |-> seats]

Created(i, n) == Rec(TRUE, "restaurant.created", "num", i, n, "Cluj", 10)
Deleted(i) == Rec(TRUE, "restaurant.deleted", "num", i, "", "", 0)
DeletedStr(i) == Rec(TRUE, "restaurant.deleted", "str", i, "", "", 0)
Unknown == Rec(TRUE, "restaurant.updated", "num", 5, "B", "Cluj", 10)
Malformed == Rec(FALSE, "", "num", 0, "", "", 0)

Records ==
    {Created(5, "A"), Created(5, "B"), Created(6, "A"), Created(0, "A"),
     Deleted(5), DeletedStr(5), Unknown, Malformed}
OneRecord == {Created(5, "A")}
CacheRecords == {Created(1, "A"), Deleted(1)}
SkipRecords == {Malformed, Unknown, Created(5, "A")}

\* json.Unmarshal of data into struct{ID int64}: a JSON string does not fit an
\* int64, the error is dropped and the field keeps Go's zero.
DecodeID(r) == IF r.idk = "num" THEN r.id ELSE 0

CacheIds == {DecodeID(r) : r \in Records}

VARIABLES
    bookings,     \* the bookings table: id -> row
    nextId,       \* its AUTO_INCREMENT counter
    inflight,     \* createBooking between the go statement and its response
    notifs,       \* the publishRabbitNotification goroutines started
    queue,        \* the email_notifications queue
    lastResp,     \* the last HTTP response written
    lastCreate,   \* the last 201 of createBooking and the row it inserted
    cache,        \* the restaurants_cache table: id -> row
    pending,      \* the topic from the group's committed offset on
    committed,    \* the group's committed offset
    pcProj,       \* where consumeRestaurantEvents is
    msg,          \* the message ReadMessage returned
    streamUp,     \* whether the broker answers the reader's next fetch
    handled,      \* records whose loop body has run to its end
    lastRec,      \* per id, the last record whose store write succeeded, and
                  \* how many times in a row it has
    scen,         \* progress of created(5,A), created(5,B), deleted(5)
    skipped,      \* 1 when the last loop body skipped its record, 2 when the
                  \* one after a skipped record wrote to the cache, else 0
    restaurants,  \* the restaurants table of the restaurants service: id -> row
    nextRid,      \* its AUTO_INCREMENT counter
    lastRest,     \* the last HTTP response of the restaurants service
    sent,         \* the last event the restaurants service wrote to the topic,
                  \* with its offset and whether the consumer's store write for
                  \* it has succeeded
    now,          \* the store's clock
    unacked,      \* deliveries the notification service holds unacknowledged
    lastAck,      \* the last delivery it settled, how, and whether the
                  \* message went back to the queue
    stopped       \* where the booking service's goroutines were when the
                  \* process last got a termination signal

apiVars == <<bookings, nextId, inflight, notifs, queue, lastResp, lastCreate>>
projVars == <<cache, pending, committed, pcProj, msg, streamUp, handled, lastRec, scen, skipped>>
restVars == <<restaurants, nextRid, lastRest>>
mailVars == <<unacked, lastAck>>
vars == <<apiVars, projVars, restVars, sent, now, mailVars, stopped>>

\* The services start on empty bookings and restaurants_cache tables, an
\* empty topic from the group's offset on, and a restaurants table that
\* holds one restaurant, of id 1.
Init ==
    /\ bookings = <<>>
    /\ nextId = 1
    /\ inflight = <<>>
    /\ notifs = <<>>
    /\ queue = <<>>
    /\ lastResp = <<>>
    /\ lastCreate = <<>>
    /\ cache = <<>>
    /\ pending = <<>>
    /\ committed = 0
    /\ pcProj = "read"
    /\ msg = <<>>
    /\ streamUp = TRUE
    /\ handled = 0
    /\ lastRec = <<>>
    /\ scen = 0
    /\ skipped = 0
    /\ restaurants = (1 :> InitialRestaurant)
    /\ nextRid = 2
    /\ lastRest = <<>>
    /\ sent = <<>>
    /\ now = 0
    /\ unacked = <<>>
    /\ lastAck = <<>>
    /\ stopped = <<>>

(***************************************************************************)
(* The Booking API                                                         *)
(***************************************************************************)
\* A response, with the request it answers (op, hdr, arg), whether the store
\* answered the handler's statement (dbok) and where the consumer was (proj).
Resp(op, h, arg, dbok, status, body) ==
    [op |-> op, hdr |-> h, arg |-> arg, dbok |-> dbok, status |-> status,
     body |-> body, proj |-> pcProj]

\* The middleware's three http.Error(..., 401) answers: next is never called.
Unauthorized(op, h, arg) ==
    /\ ~jwtAuthMiddleware(h)
    /\ lastResp' = <<Resp(op, h, arg, TRUE, StatusUnauthorized, {})>>
    /\ UNCHANGED <<bookings, nextId, inflight, notifs, queue, lastCreate>>
    /\ UNCHANGED <<projVars, restVars, sent, now, mailVars, stopped>>

\* when_ts TIMESTAMP: the driver writes the instant in UTC and, with
\* parseTime=true, reads it back as a UTC time.
StoreWhen(w) == When(w.instant, 0)

\* INSERT INTO bookings (restaurant_id, user, people, when_ts): the row's
\* columns; the id is the table's AUTO_INCREMENT, never b.ID.
InsertRow(b) ==
    [restaurant_id |-> b.restaurant_id, user |-> b.user, people |-> b.people,
     when_ts |-> StoreWhen(b.when)]

\* The value createBooking binds to the user column for a request with
\* header h and body b: b.User; the claims the middleware put into the
\* request's context are never read.
RecordedUserMut(h, b) == h.token.sub
RecordedUser(h, b) == b.user

\* The Booking createBooking encodes into its 201 body: the decoded request.
CreatedBody(b, row) == b

\* json.NewDecoder(r.Body).Decode(&b) fails: 400.
createBookingBadRequest(h) ==
    /\ jwtAuthMiddleware(h)
    /\ lastResp' = <<Resp("create", h, 0, TRUE, StatusBadRequest, {})>>
    /\ UNCHANGED <<bookings, nextId, inflight, notifs, queue, lastCreate>>
    /\ UNCHANGED <<projVars, restVars, sent, now, mailVars, stopped>>

\* db.Exec returns an error: 500, nothing written, no goroutine started.
createBookingDbErrorMut(h, b) ==
    /\ jwtAuthMiddleware(h)
    /\ lastResp' = <<Resp("create", h, 0, FALSE, StatusInternalServerError, {})>>
    /\ notifs' = Append(notifs, [pc |-> "dial", b |-> b])
    /\ UNCHANGED <<bookings, nextId, inflight, queue, lastCreate>>
    /\ UNCHANGED <<projVars, restVars, sent, now, mailVars, stopped>>
createBookingDbError(h, b) ==
    /\ jwtAuthMiddleware(h)
    /\ lastResp' = <<Resp("create", h, 0, FALSE, StatusInternalServerError, {})>>
    /\ UNCHANGED <<bookings, nextId, inflight, notifs, queue, lastCreate>>
    /\ UNCHANGED <<projVars, restVars, sent, now, mailVars, stopped>>

\* FOREIGN KEY (restaurant_id) REFERENCES restaurants(id): the INSERT is
\* refused unless the restaurants table holds that id.
ForeignKeyMut(rs, b) == TRUE
ForeignKey(rs, b) == b.restaurant_id \in DOMAIN rs

\* What restaurants_cache has to hold for createBooking to go on to its
\* INSERT: nothing, the handler never queries the cache.
CacheAdmitsMut(c, b) == b.restaurant_id \in DOMAIN c
CacheAdmits(c, b) == TRUE

\* Lines 81-97: decode, INSERT, go publishRabbitNotification(b).
createBooking(h, b) ==
    /\ jwtAuthMiddleware(h)
    /\ inflight = <<>>
    /\ nextId <= MaxBookings
    /\ CacheAdmits(cache, b)
    /\ ForeignKey(restaurants, b)
    /\ bookings' = bookings @@ (nextId :> [InsertRow(b) EXCEPT !.user = RecordedUser(h, b)])
    /\ nextId' = nextId + 1
    /\ notifs' = Append(notifs, [pc |-> "dial", b |-> b])
    /\ inflight' = <<[hdr |-> h, b |-> b, row |-> nextId, notif |-> Len(notifs) + 1,
                      cached |-> b.restaurant_id \in DOMAIN cache,
                      known |-> b.restaurant_id \in DOMAIN restaurants]>>
    /\ UNCHANGED <<queue, lastResp, lastCreate>>
    /\ UNCHANGED <<projVars, restVars, sent, now, mailVars, stopped>>

\* Whether the handler, past the go statement, may go on to write its
\* response: it never waits for the goroutine n it started.
ResponseReadyMut(n) == n.pc \in {"done", "dropped"}
ResponseReady(n) == TRUE

\* Lines 102-103: WriteHeader(201) and the body.
createBookingRespond ==
    /\ inflight # <<>>
    /\ LET c == inflight[1] IN
        /\ ResponseReady(notifs[c.notif])
        /\ lastResp' = <<Resp("create", c.hdr, 0, TRUE, StatusCreated, {CreatedBody(c.b, c.row)})>>
        /\ lastCreate' = <<[body |-> CreatedBody(c.b, c.row), row |-> c.row,
                            cached |-> c.cached, known |-> c.known]>>
    /\ inflight' = <<>>
    /\ UNCHANGED <<bookings, nextId, notifs, queue>>
    /\ UNCHANGED <<projVars, restVars, sent, now, mailVars, stopped>>

\* SELECT id, restaurant_id, user, people, when_ts ... Scan into a Booking.
ScanRow(id) ==
    Booking(id, bookings[id].restaurant_id, bookings[id].user,
            bookings[id].people, bookings[id].when_ts)

\* getBooking: any error of QueryRow/Scan (no row, or the store failing) is
\* answered 404.
getBooking(h, id, ok) ==
    /\ jwtAuthMiddleware(h)
    /\ lastResp' =
          IF ok /\ id \in DOMAIN bookings
          THEN <<Resp("get", h, id, ok, StatusOK, {ScanRow(id)})>>
          ELSE <<Resp("get", h, id, ok, StatusNotFound, {})>>
    /\ UNCHANGED <<bookings, nextId, inflight, notifs, queue, lastCreate>>
    /\ UNCHANGED <<projVars, restVars, sent, now, mailVars, stopped>>

\* listBookings: every row, in whatever order the store returns them.
listBookings(h, ok) ==
    /\ jwtAuthMiddleware(h)
    /\ lastResp' =
          IF ok
          THEN <<Resp("list", h, 0, ok, StatusOK, {ScanRow(id) : id \in DOMAIN bookings})>>
          ELSE <<Resp("list", h, 0, ok, StatusInternalServerError, {})>>
    /\ UNCHANGED <<bookings, nextId, inflight, notifs, queue, lastCreate>>
    /\ UNCHANGED <<projVars, restVars, sent, now, mailVars, stopped>>

(***************************************************************************)
(* publishRabbitNotification, one goroutine per accepted booking           *)
(***************************************************************************)
NextStage(pc) ==
    CASE pc = "dial" -> "channel"
      [] pc = "channel" -> "declare"
      [] pc = "declare" -> "publish"
      [] pc = "publish" -> "done"

\* amqp.Dial, ch.Channel or QueueDeclare returns without error.
publishAdvance(i) ==
    /\ notifs[i].pc \in {"dial", "channel", "declare"}
    /\ notifs' = [notifs EXCEPT ![i].pc = NextStage(@)]
    /\ UNCHANGED <<bookings, nextId, inflight, queue, lastResp, lastCreate>>
    /\ UNCHANGED <<projVars, restVars, sent, now, mailVars, stopped>>

\* conn.Publish of {"type": "booking.created", "data": b} succeeds.
publishSend(i) ==
    /\ notifs[i].pc = "publish"
    /\ notifs' = [notifs EXCEPT ![i].pc = NextStage(@)]
    /\ queue' = Append(queue, [type |-> "booking.created", data |-> notifs[i].b])
    /\ UNCHANGED <<bookings, nextId, inflight, lastResp, lastCreate>>
    /\ UNCHANGED <<projVars, restVars, sent, now, mailVars, stopped>>

\* Any of the four calls fails: the error is logged and the goroutine returns.
publishFailMut(i) ==
    /\ notifs[i].pc \in {"dial", "channel", "declare", "publish"}
    /\ notifs' = [notifs EXCEPT ![i].pc = "dial"]
    /\ UNCHANGED <<bookings, nextId, inflight, queue, lastResp, lastCreate>>
    /\ UNCHANGED <<projVars, restVars, sent, now, mailVars, stopped>>
publishFail(i) ==
    /\ notifs[i].pc \in {"dial", "channel", "declare", "publish"}
    /\ notifs' = [notifs EXCEPT ![i].pc = "dropped"]
    /\ UNCHANGED <<bookings, nextId, inflight, queue, lastResp, lastCreate>>
    /\ UNCHANGED <<projVars, restVars, sent, now, mailVars, stopped>>

(***************************************************************************)
(* consumeRestaurantEvents                                                 *)
(***************************************************************************)
\* The restaurants topic gets one more record.
Produce(r) ==
    /\ committed + Len(pending) < MaxStream
    /\ Len(pending) < MaxPending
    /\ pending' = Append(pending, r)
    /\ UNCHANGED <<cache, committed, pcProj, msg, streamUp, handled, lastRec, scen, skipped>>
    /\ UNCHANGED <<apiVars, restVars, sent, now, mailVars, stopped>>

\* kafkaReader.ReadMessage with a GroupID: it fetches the next message and
\* commits its offset before it returns the message.
ReadMessage ==
    /\ pcProj = "read"
    /\ streamUp
    /\ pending # <<>>
    /\ msg' = <<Head(pending)>>
    /\ pending' = Tail(pending)
    /\ committed' = committed + 1
    /\ pcProj' = "apply"
    /\ UNCHANGED <<cache, streamUp, handled, lastRec, scen, skipped>>
    /\ UNCHANGED <<apiVars, restVars, sent, now, mailVars, stopped>>

\* Where the loop goes on a read error: log, sleep, continue.
AfterReadErrorMut == "stopped"
AfterReadError == "backoff"

\* ReadMessage returns an error.
ReadError ==
    /\ pcProj = "read"
    /\ ~streamUp
    /\ pcProj' = AfterReadError
    /\ UNCHANGED <<cache, pending, committed, msg, streamUp, handled, lastRec, scen, skipped>>
    /\ UNCHANGED <<apiVars, restVars, sent, now, mailVars, stopped>>

\* time.Sleep(2 * time.Second) is over; continue.
Wake ==
    /\ pcProj = "backoff"
    /\ pcProj' = "read"
    /\ UNCHANGED <<cache, pending, committed, msg, streamUp, handled, lastRec, scen, skipped>>
    /\ UNCHANGED <<apiVars, restVars, sent, now, mailVars, stopped>>

\* The broker becomes unreachable for the reader, or reachable again.
StreamDown ==
    /\ streamUp
    /\ streamUp' = FALSE
    /\ UNCHANGED <<cache, pending, committed, pcProj, msg, handled, lastRec, scen, skipped>>
    /\ UNCHANGED <<apiVars, restVars, sent, now, mailVars, stopped>>

StreamUp ==
    /\ ~streamUp
    /\ streamUp' = TRUE
    /\ UNCHANGED <<cache, pending, committed, pcProj, msg, handled, lastRec, scen, skipped>>
    /\ UNCHANGED <<apiVars, restVars, sent, now, mailVars, stopped>>

\* REPLACE INTO restaurants_cache (id, name, city, seats, last_seen)
\* VALUES (?, ?, ?, ?, NOW()): the row of that id, if any, is replaced.
UpsertKeep(c, id, r, t) ==
    [j \in DOMAIN c \cup {id} |->
        IF j \in DOMAIN c THEN c[j]
        ELSE [name |-> r.name, city |-> r.city, seats |-> r.seats, last_seen |-> t]]
UpsertMut(c, id, r, t) ==
    [j \in DOMAIN c \cup {id} |->
        IF j # id THEN c[j]
        ELSE [name |-> r.name, city |-> r.city, last_seen |-> t,
              seats |-> IF id \in DOMAIN c THEN c[id].seats + r.seats ELSE r.seats]]
Upsert(c, id, r, t) ==
    [j \in DOMAIN c \cup {id} |->
        IF j # id THEN c[j]
        ELSE [name |-> r.name, city |-> r.city, seats |-> r.seats, last_seen |-> t]]

\* DELETE FROM restaurants_cache WHERE id = ?
DeleteRowNone(c, id) == c
DeleteRowFrom(c, id) == [j \in {k \in DOMAIN c : k < id} |-> c[j]]
DeleteRow(c, id) == [j \in DOMAIN c \ {id} |-> c[j]]

\* Whether the loop body reaches a db.Exec for this record.
Writes(r) == r.json /\ r.type \in {"restaurant.created", "restaurant.deleted"}

\* The progress of the sequence created(5, A), created(5, B), deleted(5)
\* among the records written to the cache for id 5.
ScenNext(s, r) ==
    CASE r = Created(5, "A") -> 1
      [] r = Created(5, "B") /\ s = 1 -> 2
      [] r = Deleted(5) /\ s = 2 -> 3
      [] r.id = 5 \/ DecodeID(r) = 5 -> 0
      [] OTHER -> s

\* The loop body skipped r, or wrote to the cache right after a skip.
SkipNext(k, r, ok) ==
    IF ~Writes(r) THEN 1
    ELSE IF ok /\ k = 1 THEN 2
    ELSE 0

\* The record joins the history of its id.
Remember(h, r) ==
    LET id == DecodeID(r)
        n == IF id \in DOMAIN h /\ h[id].rec = r THEN h[id].n + 1 ELSE 1
    IN [j \in DOMAIN h \cup {id} |-> IF j = id THEN [rec |-> r, n |-> n] ELSE h[j]]

\* Where the loop goes after a record it does not write for (json.Unmarshal
\* failed: continue; neither branch of the if taken: the next iteration).
AfterSkipMut == "stopped"
AfterSkip == "read"

\* Where the loop goes after a db.Exec that returned an error: both results
\* are assigned to _, so on to the log line and the next iteration.
AfterExecErrorMut == "stopped"
AfterExecError == "read"

\* What the loop body does to the bookings table bk for record r: nothing,
\* both db.Exec statements of the loop name restaurants_cache alone.
ApplyBookingsMut(bk, r) ==
    IF r.type = "restaurant.deleted"
    THEN [j \in {i \in DOMAIN bk : bk[i].restaurant_id # DecodeID(r)} |-> bk[j]]
    ELSE bk
ApplyBookings(bk, r) == bk

\* Lines 149-177, the loop body after a message was read: decode, then one
\* db.Exec whose error (ok = FALSE) is dropped, then the next iteration.
Apply(ok) ==
    /\ pcProj = "apply"
    /\ LET r == msg[1] IN
        /\ bookings' = ApplyBookings(bookings, r)
        /\ cache' =
              IF ~(Writes(r) /\ ok) THEN cache
              ELSE IF r.type = "restaurant.created"
              THEN Upsert(cache, DecodeID(r), r, now)
              ELSE DeleteRow(cache, DecodeID(r))
        /\ lastRec' = IF Writes(r) /\ ok THEN Remember(lastRec, r) ELSE lastRec
        /\ scen' = IF Writes(r) /\ ok THEN ScenNext(scen, r) ELSE scen
        /\ skipped' = SkipNext(skipped, r, ok)
        /\ sent' = IF sent # <<>> /\ sent[1].off = committed /\ Writes(r) /\ ok
                   THEN <<[sent[1] EXCEPT !.applied = TRUE]>> ELSE sent
        /\ pcProj' = IF ~Writes(r) THEN AfterSkip
                     ELSE IF ok THEN "read" ELSE AfterExecError
    /\ msg' = <<>>
    /\ handled' = handled + 1
    /\ UNCHANGED <<pending, committed, streamUp>>
    /\ UNCHANGED <<nextId, inflight, notifs, queue, lastResp, lastCreate>>
    /\ UNCHANGED <<restVars, now, mailVars, stopped>>

(***************************************************************************)
(* The notification service, consumer of email_notifications               *)
(***************************************************************************)
\* A body on the queue that json.Unmarshal rejects.
NotJSON == [type |-> "not json", data |-> Booking(0, 0, "", 0, When(0, 0))]

\* Line 152: json.Unmarshal(d.Body, &ev) returns no error.
Unmarshal(m) == m # NotJSON

\* Some publisher puts a body that is not JSON on the queue.
publishOther ==
    /\ Len(queue) + Len(unacked) < MaxQueue
    /\ queue' = Append(queue, NotJSON)
    /\ UNCHANGED <<bookings, nextId, inflight, notifs, lastResp, lastCreate>>
    /\ UNCHANGED <<projVars, restVars, sent, now, mailVars, stopped>>

\* Lines 134-142, ch.Consume with auto-ack false: the broker hands the head
\* of the queue to the consumer and holds it until it is settled.
Deliver ==
    /\ queue # <<>>
    /\ unacked' = Append(unacked, Head(queue))
    /\ queue' = Tail(queue)
    /\ UNCHANGED <<bookings, nextId, inflight, notifs, lastResp, lastCreate>>
    /\ UNCHANGED <<projVars, restVars, sent, now, lastAck, stopped>>

\* What the handler calls on a delivery: d.Nack(false, false) when the body
\* is not JSON (line 155), d.Ack(false) when the call of the function failed
\* (line 164) and when it succeeded (line 168).
Settlement(valid, ok) ==
    IF ~valid THEN "nack" ELSE "ack"

\* The queue q once delivery m is settled: an ack and a nack without
\* requeue remove the message, a nack with requeue puts it back.
Settled(q, how, m) == IF how = "requeue" THEN <<m>> \o q ELSE q

\* Lines 151-168, the loop body on the oldest delivery; ok is whether
\* triggerEmailFaaS (lines 188-214) returned nil.
handleDelivery(ok) ==
    /\ unacked # <<>>
    /\ LET d == Head(unacked)
           valid == Unmarshal(d)
           q == Settled(queue, Settlement(valid, ok), d)
       IN /\ queue' = q
          /\ lastAck' = <<[m |-> d,
                           outcome |-> IF ~valid THEN "invalid"
                                       ELSE IF ok THEN "sent" ELSE "failed",
                           back |-> Len(q) > Len(queue)]>>
    /\ unacked' = Tail(unacked)
    /\ UNCHANGED <<bookings, nextId, inflight, notifs, lastResp, lastCreate>>
    /\ UNCHANGED <<projVars, restVars, sent, now, stopped>>

(***************************************************************************)
(* The restaurants service (src/restaurants/main.go)                       *)
(***************************************************************************)
\* Whether the topic of the model has room for one more record.
TopicHasRoom == committed + Len(pending) < MaxStream /\ Len(pending) < MaxPending

\* The offset WriteMessages gives the next record of the topic.
NextOffset == committed + Len(pending) + 1

\* A response of the restaurants service, with the request it answers and
\* whether the handler's WriteMessages put its record on the topic.
RestResp(op, id, status, written) ==
    [op |-> op, id |-> id, status |-> status, written |-> written]

\* {"type": "restaurant.created", "data": rr}: data carries rr as decoded
\* from the request, its ID included.
CreatedEvent(rr) == Rec(TRUE, "restaurant.created", "num", rr.id, rr.name, rr.city, rr.seats)

\* {"type": "restaurant.deleted", "data": map[string]string{"id": id}}: the id
\* is the path segment, a JSON string.
DeletedEvent(id) == DeletedStr(id)

\* kWriter.WriteMessages, its error dropped: the record is on the topic when
\* the write succeeds (kok) and nothing is when it fails.
WriteMessages(op, rid, ev, kok) ==
    IF kok
    THEN /\ pending' = Append(pending, ev)
         /\ sent' = <<[op |-> op, rid |-> rid, ev |-> ev,
                       off |-> NextOffset, applied |-> FALSE]>>
    ELSE UNCHANGED <<pending, sent>>

\* json.NewDecoder(r.Body).Decode(&rr) fails: 400.
createRestaurantBadRequest ==
    /\ lastRest' = <<RestResp("create", 0, StatusBadRequest, FALSE)>>
    /\ UNCHANGED <<restaurants, nextRid, pending, sent>>
    /\ UNCHANGED <<cache, committed, pcProj, msg, streamUp, handled, lastRec, scen, skipped>>
    /\ UNCHANGED <<apiVars, now, mailVars, stopped>>

\* createRestaurant: INSERT (500 when it fails), the event, 201 with rr.
createRestaurant(rr, dbok, kok) ==
    /\ IF ~dbok
       THEN /\ lastRest' = <<RestResp("create", 0, StatusInternalServerError, FALSE)>>
            /\ UNCHANGED <<restaurants, nextRid, pending, sent>>
       ELSE /\ nextRid <= MaxRestaurants
            /\ kok => TopicHasRoom
            /\ restaurants' = restaurants @@
                   (nextRid :> [name |-> rr.name, city |-> rr.city, seats |-> rr.seats])
            /\ nextRid' = nextRid + 1
            /\ WriteMessages("create", nextRid, CreatedEvent(rr), kok)
            /\ lastRest' = <<RestResp("create", nextRid, StatusCreated, pending' # pending)>>
    /\ UNCHANGED <<cache, committed, pcProj, msg, streamUp, handled, lastRec, scen, skipped>>
    /\ UNCHANGED <<apiVars, now, mailVars, stopped>>

\* ON DELETE CASCADE of bookings.restaurant_id: the bookings of a deleted
\* restaurant are deleted with it.
CascadeNone(bk, id) == bk
Cascade(bk, id) == [j \in {k \in DOMAIN bk : bk[k].restaurant_id # id} |-> bk[j]]

\* deleteRestaurant: DELETE (500 when it fails; no row is no error), the
\* event, 204.
deleteRestaurant(id, dbok, kok) ==
    /\ IF ~dbok
       THEN /\ lastRest' = <<RestResp("delete", id, StatusInternalServerError, FALSE)>>
            /\ UNCHANGED <<restaurants, bookings, pending, sent>>
       ELSE /\ kok => TopicHasRoom
            /\ restaurants' = [j \in DOMAIN restaurants \ {id} |-> restaurants[j]]
            /\ bookings' = Cascade(bookings, id)
            /\ WriteMessages("delete", id, DeletedEvent(id), kok)
            /\ lastRest' = <<RestResp("delete", id, StatusNoContent, pending' # pending)>>
    /\ UNCHANGED <<nextId, inflight, notifs, queue, lastResp, lastCreate>>
    /\ UNCHANGED <<nextRid, now, mailVars, stopped>>
    /\ UNCHANGED <<cache, committed, pcProj, msg, streamUp, handled, lastRec, scen, skipped>>

(***************************************************************************)
(* The process and its environment                                         *)
(***************************************************************************)
\* The process dies and is started again: its goroutines and the message in
\* hand are gone, main builds a new reader, which resumes at the group's
\* committed offset.
Crash ==
    /\ inflight' = <<>>
    /\ notifs' = [i \in DOMAIN notifs |->
                    IF notifs[i].pc \in {"done", "dropped"} THEN notifs[i]
                    ELSE [notifs[i] EXCEPT !.pc = "killed"]]
    /\ pcProj' = "read"
    /\ msg' = <<>>
    /\ UNCHANGED <<bookings, nextId, queue, lastResp, lastCreate>>
    /\ UNCHANGED <<cache, pending, committed, streamUp, handled, lastRec, scen, skipped, now, mailVars, stopped>>
    /\ UNCHANGED <<restVars, sent>>

\* The process gets SIGTERM or SIGINT. main installs no handler for either
\* and serves with http.ListenAndServe, so the runtime ends the process at
\* once, as in Crash; stopped keeps what that cut short.
Shutdown ==
    /\ stopped' = <<[proj |-> pcProj, inflight |-> inflight # <<>>]>>
    /\ inflight' = <<>>
    /\ notifs' = [i \in DOMAIN notifs |->
                    IF notifs[i].pc \in {"done", "dropped"} THEN notifs[i]
                    ELSE [notifs[i] EXCEPT !.pc = "killed"]]
    /\ pcProj' = "read"
    /\ msg' = <<>>
    /\ UNCHANGED <<bookings, nextId, queue, lastResp, lastCreate>>
    /\ UNCHANGED <<cache, pending, committed, streamUp, handled, lastRec, scen, skipped, now>>
    /\ UNCHANGED <<restVars, sent, mailVars>>

\* NOW() moves on.
Tick ==
    /\ now < MaxNow
    /\ now' = now + 1
    /\ UNCHANGED <<apiVars, projVars, restVars, sent, mailVars, stopped>>

\* The handlers behind the middleware.
Handlers(hs, bs) ==
    \/ \E h \in hs : createBookingBadRequest(h)
    \/ \E h \in hs, b \in bs : createBookingDbError(h, b)
    \/ \E h \in hs, b \in bs : createBooking(h, b)
    \/ createBookingRespond
    \/ \E h \in hs, id \in GetIds, ok \in BOOLEAN : getBooking(h, id, ok)
    \/ \E h \in hs, ok \in BOOLEAN : listBookings(h, ok)

Api(hs, bs) ==
    \/ \E h \in hs, op \in {"create", "get", "list"} : Unauthorized(op, h, 0)
    \/ Handlers(hs, bs)

Notifier ==
    \/ \E i \in DOMAIN notifs : publishAdvance(i)
    \/ \E i \in DOMAIN notifs : publishSend(i)
    \/ \E i \in DOMAIN notifs : publishFail(i)

\* consumeRestaurantEvents and the broker it reads from.
Consumer ==
    \/ ReadMessage
    \/ ReadError
    \/ Wake
    \/ StreamDown
    \/ StreamUp
    \/ \E ok \in BOOLEAN : Apply(ok)

\* The consumer under any producer of the topic.
Projector(rs) ==
    \/ \E r \in rs : Produce(r)
    \/ Consumer

\* The restaurants service.
Restaurants(rrs, ids) ==
    \/ createRestaurantBadRequest
    \/ \E rr \in rrs, dbok \in BOOLEAN, kok \in BOOLEAN : createRestaurant(rr, dbok, kok)
    \/ \E id \in ids, dbok \in BOOLEAN, kok \in BOOLEAN : deleteRestaurant(id, dbok, kok)

\* The notification service.
Mailer ==
    \/ publishOther
    \/ Deliver
    \/ \E ok \in BOOLEAN : handleDelivery(ok)

\* The whole system.
Next ==
    \/ Api(Headers, Bodies) \/ Notifier \/ Projector(Records)
    \/ Restaurants(RestaurantBodies, DeleteIds)
    \/ Mailer
    \/ Tick \/ Crash \/ Shutdown
Spec == Init /\ [][Next]_vars

\* The Booking API and its notification goroutines, for every request body.
NextApi == Api(TwoHeaders, Bodies) \/ Notifier
SpecApi == Init /\ [][NextApi]_vars

\* The same, for every Authorization header.
NextAuth == Api(Headers, OneBody) \/ Notifier
SpecAuth == Init /\ [][NextAuth]_vars

\* The consumer, the topic and the process dying under it.
NextProj == Projector(Records) \/ Tick \/ Crash
SpecProj == Init /\ [][NextProj]_vars

\* The consumer and the API side by side while the process stays up: the
\* consumer's goroutine is scheduled again whenever it can take a step.
NextLive == Api(TwoHeaders, OneBody) \/ Projector(OneRecord)
LiveProj ==
    /\ Init /\ [][NextLive]_vars
    /\ WF_vars(ReadMessage) /\ WF_vars(ReadError) /\ WF_vars(Wake)
    /\ WF_vars(\E ok \in BOOLEAN : Apply(ok))

\* The API, rejected requests included, beside the consumer of a stream
\* that creates and removes the restaurant the bookings are for.
NextBoth ==
    \/ \E op \in {"create", "get", "list"} : Unauthorized(op, Expired, 0)
    \/ createBookingBadRequest(GoodAlice)
    \/ \E b \in OneBody : createBooking(GoodAlice, b)
    \/ createBookingRespond
    \/ getBooking(GoodAlice, 1, TRUE)
    \/ listBookings(GoodAlice, TRUE)
    \/ Projector(CacheRecords)
SpecBoth == Init /\ [][NextBoth]_vars

\* Bookings of one client, their notification goroutines and the
\* notification service behind the queue.
NextMail ==
    \/ \E b \in OneBody : createBooking(GoodAlice, b)
    \/ createBookingRespond
    \/ Notifier
    \/ Mailer
SpecMail == Init /\ [][NextMail]_vars

\* The booking service serving one client and consuming one record, and
\* the termination signals it gets.
NextStop ==
    \/ \E b \in OneBody : createBooking(GoodAlice, b)
    \/ createBookingRespond
    \/ Projector(OneRecord)
    \/ Shutdown
SpecStop == Init /\ [][NextStop]_vars

\* The restaurants service and the consumer of its events.
NextRest == Restaurants(RestaurantBodies, DeleteIds) \/ Consumer
SpecRest == Init /\ [][NextRest]_vars

\* Requests of one authenticated client answered by a store that is up, the
\* restaurants service adding a restaurant and removing restaurant 1, and
\* the consumer reading a stream that is up, over the one store they share.
NextSys ==
    \/ \E b \in SysBodies : createBooking(GoodAlice, b)
    \/ createBookingRespond
    \/ \E id \in 1 .. MaxBookings : getBooking(GoodAlice, id, TRUE)
    \/ listBookings(GoodAlice, TRUE)
    \/ \E rr \in OneRestaurant, kok \in BOOLEAN : createRestaurant(rr, TRUE, kok)
    \/ \E kok \in BOOLEAN : deleteRestaurant(1, TRUE, kok)
    \/ ReadMessage
    \/ \E ok \in BOOLEAN : Apply(ok)
SpecSys == Init /\ [][NextSys]_vars

\* Create under a consumer whose cache gains and loses the restaurant the
\* bookings refer to, and whose stream goes down and comes back.
NextCache ==
    \/ \E b \in OneBody : createBookingDbError(GoodAlice, b)
    \/ \E b \in OneBody : createBooking(GoodAlice, b)
    \/ createBookingRespond
    \/ Projector(CacheRecords)
SpecCache == Init /\ [][NextCache]_vars

\* The consumer on a topic with records it cannot decode or does not know,
\* while the process stays up.
NextSkip == Projector(SkipRecords)
LiveSkip ==
    /\ Init /\ [][NextSkip]_vars
    /\ WF_vars(ReadMessage) /\ WF_vars(ReadError) /\ WF_vars(Wake)
    /\ WF_vars(\E ok \in BOOLEAN : Apply(ok))

\* The Booking API while the process stays up: a handler past its go statement
\* is scheduled again; nothing makes a notification goroutine's calls return.
LiveApi == Init /\ [][NextApi]_vars /\ WF_vars(createBookingRespond)

(***************************************************************************)
(* Properties of the Booking API                                           *)
(***************************************************************************)
\* C1: when a Get asks for the id the last 201 of Create carried (a Create
\* with a positive party size), and the store answers, it is answered 200
\* with a Booking equal in every field to the one that Create returned.
C1_CreateThenGet ==
    (/\ lastCreate # <<>>
     /\ lastCreate[1].body.people > 0
     /\ lastResp # <<>>
     /\ lastResp[1].op = "get"
     /\ lastResp[1].dbok
     /\ lastResp[1].status # StatusUnauthorized
     /\ lastResp[1].arg = lastCreate[1].body.id)
    => /\ lastResp[1].status = StatusOK
       /\ lastResp[1].body = {lastCreate[1].body}

\* C2: the id in the body of a 201 of Create (with a positive party size) is
\* the id of the row the store inserted for that request.
C2_ReturnsAssignedId ==
    (lastCreate # <<>> /\ lastCreate[1].body.people > 0)
        => lastCreate[1].body.id = lastCreate[1].row

\* C3: a notification goroutine that fails or never returns neither holds
\* back nor changes the response of Create: no step of a goroutine touches
\* the bookings table or a response, every accepted Create is answered 201
\* with the request's Booking, the row it wrote stays in the table, and the
\* answer comes even if the goroutine never takes another step.
NotifierStep == notifs' # notifs /\ Len(notifs') = Len(notifs)

C3_NotificationDetached ==
    /\ [][NotifierStep => UNCHANGED <<bookings, nextId, inflight, lastResp, lastCreate>>]_vars
    /\ [][(inflight # <<>> /\ inflight' = <<>>) =>
            /\ lastResp'[1].op = "create"
            /\ lastResp'[1].status = StatusCreated
            /\ lastResp'[1].body = {inflight[1].b}]_vars
    /\ [](lastCreate # <<>> =>
            /\ lastCreate[1].row \in DOMAIN bookings
            /\ bookings[lastCreate[1].row] = InsertRow(lastCreate[1].body))
    /\ (inflight # <<>>) ~> (inflight = <<>>)

\* C3 witness: Create was answered 201 although its goroutine failed, and a
\* later Get of the row was answered 200.
C3_Witness ==
    /\ lastCreate # <<>>
    /\ \E i \in DOMAIN notifs : notifs[i].pc = "dropped"
    /\ queue = <<>>
    /\ lastResp # <<>>
    /\ lastResp[1].op = "get"
    /\ lastResp[1].arg = lastCreate[1].row
    /\ lastResp[1].status = StatusOK

\* The credentials C4 names: no header, a header that is not "Bearer <token>"
\* (the scheme in any case), a token that is not signed with the secret, an
\* expired one, one that declares an algorithm outside the HMAC family.
BadCredential(h) ==
    \/ h.parts = <<>>
    \/ Len(h.parts) # 2
    \/ h.parts[1] \notin {"Bearer", "bearer", "BEARER"}
    \/ ~h.token.sig
    \/ h.token.expired
    \/ h.token.alg \notin {HS256, HS512}

\* C4: a request with such a credential is answered 401 whatever the
\* operation, no handler ever runs for it, and answering it writes no booking
\* and starts no notification.
C4_Unauthenticated ==
    [][/\ (lastResp' # <<>> /\ BadCredential(lastResp'[1].hdr))
            => lastResp'[1].status = StatusUnauthorized
       /\ inflight' # <<>> => ~BadCredential(inflight'[1].hdr)
       /\ (lastResp' # lastResp /\ BadCredential(lastResp'[1].hdr))
            => UNCHANGED <<bookings, nextId, inflight, notifs, queue>>]_vars

\* C4 witness: a Create with an expired token was answered 401 when the
\* table already held a booking.
C4_Witness ==
    /\ lastResp # <<>>
    /\ lastResp[1].op = "create"
    /\ lastResp[1].hdr = Expired
    /\ lastResp[1].status = StatusUnauthorized
    /\ bookings # <<>>

\* C5: no Create with a party size that is not positive gets through: it is
\* not answered 201, no row holds such a size, no notification carries one.
C5_PartySizeValidated ==
    /\ \A id \in DOMAIN bookings : bookings[id].people > 0
    /\ \A i \in DOMAIN notifs : notifs[i].b.people > 0
    /\ (lastResp # <<>> /\ lastResp[1].status = StatusCreated)
          => \A b \in lastResp[1].body : b.people > 0

\* C11: Create does not depend on the cache.  Whenever the store would accept
\* the INSERT of a request (its restaurant is in the restaurants table), the
\* handler can make it, whatever the cache holds and whether or not the
\* stream is up; and a Create whose INSERT was accepted is answered 201 with
\* its row in the table.
C11_CreateIgnoresCache ==
    /\ [](\A b \in OneBody :
            (inflight = <<>> /\ nextId <= MaxBookings /\ ForeignKey(restaurants, b))
                => ENABLED createBooking(GoodAlice, b))
    /\ [][(inflight # <<>> /\ inflight' = <<>>) =>
            /\ lastResp'[1].status = StatusCreated
            /\ inflight[1].row \in DOMAIN bookings']_vars

\* C11 witness: a Create made when the cache had lost the entry of its
\* restaurant was answered 201 while the stream was down and the consumer
\* sleeping after a read error.
C11_Witness ==
    /\ lastCreate # <<>>
    /\ ~lastCreate[1].cached
    /\ 1 \in DOMAIN lastRec
    /\ lastRec[1].rec = Deleted(1)
    /\ ~streamUp
    /\ lastResp # <<>>
    /\ lastResp[1].op = "create"
    /\ lastResp[1].proj = "backoff"
    /\ lastResp[1].status = StatusCreated
    /\ lastCreate[1].row \in DOMAIN bookings

\* C12 as the spec states it: every booking, at the moment its row was
\* inserted, referred to a restaurant id that had an entry in the cache.
C12_CachedAtCreation ==
    \A i \in DOMAIN inflight : inflight[i].cached

\* C12 as amended: every booking, at the moment its row was inserted,
\* referred to a restaurant id that had a row in the restaurants table.
C12_KnownAtCreation ==
    \A i \in DOMAIN inflight : inflight[i].known

\* C12 witness: a booking was created for a restaurant that the restaurants
\* table held and the cache, which had entries, did not.
C12_Witness ==
    /\ lastCreate # <<>>
    /\ lastCreate[1].known
    /\ ~lastCreate[1].cached
    /\ cache # <<>>
    /\ lastCreate[1].row \in DOMAIN bookings

\* C13: a Create whose store write fails is answered 500, and answering it
\* leaves the bookings table (what Get and List read) as it was and starts
\* no notification goroutine and puts no message on the queue.
C13_StoreUnavailable ==
    [][(/\ lastResp' # <<>>
        /\ lastResp' # lastResp
        /\ lastResp'[1].op = "create"
        /\ ~lastResp'[1].dbok)
       => /\ lastResp'[1].status = StatusInternalServerError
          /\ UNCHANGED <<bookings, nextId, notifs, queue, inflight>>]_vars

\* C13 witness: a Create was answered 500 after an earlier one had been
\* accepted, and the table and the notifications are those of the earlier one.
C13_Witness ==
    /\ lastResp # <<>>
    /\ lastResp[1].op = "create"
    /\ lastResp[1].status = StatusInternalServerError
    /\ Len(notifs) = 1
    /\ DOMAIN bookings = {1}

\* C19: one notification attempt per acknowledged Create, never retried.
\* There are as many goroutines as rows ever inserted; one is started only
\* in the step that inserted its booking, for that booking; a goroutine
\* that failed or finished never moves again, and a failure only ever ends
\* it; the queue holds exactly one booking.created message per goroutine
\* that finished, so at most one per booking.
C19_OneAttemptPerBooking ==
    /\ [](Len(notifs) = nextId - 1)
    /\ [](/\ Len(queue) = Cardinality({i \in DOMAIN notifs : notifs[i].pc = "done"})
          /\ \A k \in DOMAIN queue : queue[k].type = "booking.created")
    /\ [][Len(notifs') # Len(notifs) =>
            /\ Len(notifs') = Len(notifs) + 1
            /\ nextId' = nextId + 1
            /\ nextId \in DOMAIN bookings'
            /\ bookings'[nextId] = InsertRow(notifs'[Len(notifs')].b)
            /\ notifs'[Len(notifs')].pc = "dial"]_vars
    /\ [][\A i \in DOMAIN notifs :
            /\ notifs[i].pc \in {"done", "dropped"} => notifs'[i] = notifs[i]
            /\ notifs'[i].pc # notifs[i].pc =>
                  notifs'[i].pc \in {NextStage(notifs[i].pc), "dropped"}
            /\ notifs'[i].b = notifs[i].b]_vars

\* C19 witness: a Create was answered 201, the one goroutine started for
\* its booking failed and was dropped, and the queue holds no message.
C19_Witness ==
    /\ 1 \in DOMAIN bookings
    /\ inflight = <<>>
    /\ Len(notifs) = 1
    /\ notifs[1].pc = "dropped"
    /\ queue = <<>>
    /\ lastResp # <<>>
    /\ lastResp[1].status = StatusCreated

(***************************************************************************)
(* Properties of the consumer                                              *)
(***************************************************************************)
\* C6: no record the consumer has received is lost unapplied: every record
\* below the committed offset has had its loop body run to the end, or is
\* the message in hand.
C6_NoRecordLost ==
    committed = handled + (IF pcProj = "apply" THEN 1 ELSE 0)

\* The cache without last_seen: the rows, and the name, city and seats of each.
View(c) ==
    [j \in DOMAIN c |-> [name |-> c[j].name, city |-> c[j].city, seats |-> c[j].seats]]

\* What the events of id j alone determine: the snapshot of its last
\* created record, or no row after a deleted record or no record at all.
OwnEvents(j) ==
    IF j \in DOMAIN lastRec /\ lastRec[j].rec.type = "restaurant.created"
    THEN <<[name |-> lastRec[j].rec.name, city |-> lastRec[j].rec.city,
            seats |-> lastRec[j].rec.seats]>>
    ELSE <<>>

RowOf(j) == IF j \in DOMAIN cache THEN <<View(cache)[j]>> ELSE <<>>

\* C7: once created(5, A), created(5, B), deleted(5) have been applied in
\* that order, with records of other ids anywhere between them, the cache
\* has no row for id 5 and the row of every other id is what the events of
\* that id determine.
C7_CreateCreateDelete ==
    scen = 3 =>
        /\ 5 \notin DOMAIN cache
        /\ \A j \in CacheIds \ {5} : RowOf(j) = OwnEvents(j)

\* C7 witness: the three records are applied and a record of id 6 was
\* applied along the way.
C7_Witness == scen = 3 /\ 6 \in DOMAIN cache /\ 5 \notin DOMAIN cache

\* C8: applying a restaurant.created record that is already the last one
\* applied for its id leaves the rows of the cache and their name, city and
\* seats as they are.
C8_CreatedIdempotent ==
    [][\A j \in DOMAIN lastRec :
          (/\ lastRec[j].rec.type = "restaurant.created"
           /\ lastRec'[j].rec = lastRec[j].rec
           /\ lastRec'[j].n = lastRec[j].n + 1)
          => View(cache') = View(cache)]_vars

\* C8 witness: the same created record was applied twice in a row, the
\* second time later than the first.
C8_Witness ==
    /\ 5 \in DOMAIN lastRec
    /\ lastRec[5].rec = Created(5, "A")
    /\ lastRec[5].n = 2
    /\ cache[5].last_seen = 1

\* C9: the loop body run on a restaurant.deleted record whose id has no row
\* leaves the cache as it is and goes back to reading.
C9_DeleteAbsentNoop ==
    [][(/\ pcProj = "apply"
        /\ handled' = handled + 1
        /\ msg[1].json
        /\ msg[1].type = "restaurant.deleted"
        /\ DecodeID(msg[1]) \notin DOMAIN cache)
       => (cache' = cache /\ pcProj' = "read")]_vars

\* C9 witness: deleted(5) was applied twice in a row, so its second delete
\* found no row, while the cache holds a row of another id.
C9_Witness ==
    /\ 5 \in DOMAIN lastRec
    /\ lastRec[5].rec = Deleted(5)
    /\ lastRec[5].n = 2
    /\ cache # <<>>
    /\ pcProj = "read"

\* The status the API gives a request, from the request and the bookings
\* table alone.
AnswerOf(r, bk) ==
    CASE ~jwtAuthMiddleware(r.hdr) -> {StatusUnauthorized}
      [] r.op = "get" -> IF r.dbok /\ r.arg \in DOMAIN bk THEN {StatusOK} ELSE {StatusNotFound}
      [] r.op = "list" -> IF r.dbok THEN {StatusOK} ELSE {StatusInternalServerError}
      [] r.op = "create" -> IF r.dbok THEN {StatusCreated, StatusBadRequest}
                            ELSE {StatusInternalServerError}

\* C10: the consumer never leaves its loop; after a read error it sleeps and
\* reads again, however often; once the stream stays readable the consumer
\* catches up again and again, so that every record written to the topic is
\* received and its loop body run; and a request answered while the consumer
\* is not reading is answered as at any other time.
C10_SelfHealing ==
    /\ [](pcProj \in {"read", "apply", "backoff"})
    /\ [][(pcProj = "read" /\ pcProj' # "read" /\ ~streamUp) => pcProj' = "backoff"]_vars
    /\ (pcProj = "backoff") ~> (pcProj = "read")
    /\ (<>[]streamUp) => []<>(pending = <<>> /\ handled = committed)
    /\ [][lastResp' # lastResp =>
            lastResp'[1].status \in AnswerOf(lastResp'[1], bookings)]_vars

\* C10 witness: after a read error and its backoff a record was received and
\* applied, and a Get was answered 200 while the consumer was sleeping.
C10_Witness ==
    /\ handled >= 2
    /\ cache # <<>>
    /\ lastResp # <<>>
    /\ lastResp[1].proj = "backoff"
    /\ lastResp[1].op = "get"
    /\ lastResp[1].status = StatusOK

\* C15: last-write-wins per id.  After any records have been applied in
\* receive order, every id has a row exactly when the last record applied
\* for it is a created one, and the row has the name, city and seats of that
\* record; a record with a well-formed id counts for the id it carries.
C15_LastWriteWins ==
    /\ DOMAIN cache \subseteq CacheIds
    /\ \A j \in CacheIds : RowOf(j) = OwnEvents(j)
    /\ \A j \in DOMAIN lastRec : lastRec[j].rec.idk = "num" => lastRec[j].rec.id = j

\* C15 witness: created(5, A) then created(5, B) were applied, and a record
\* of id 6 as well: the row of 5 carries B.
C15_Witness ==
    /\ scen = 2
    /\ 5 \in DOMAIN cache
    /\ cache[5].name = "B"
    /\ 6 \in DOMAIN cache

\* C18: the loop body run on a record that is not JSON, or whose type is
\* neither restaurant.created nor restaurant.deleted, leaves the cache and
\* the topic as they are and goes back to reading past that record; such a
\* record is always got rid of, and once the stream stays readable the
\* records after it are received and handled.
C18_SkipBadRecord ==
    /\ [][(/\ pcProj = "apply"
            /\ handled' = handled + 1
            /\ (~msg[1].json
                \/ msg[1].type \notin {"restaurant.created", "restaurant.deleted"}))
           => /\ cache' = cache
              /\ lastRec' = lastRec
              /\ pending' = pending
              /\ committed' = committed
              /\ pcProj' = "read"]_vars
    /\ (pcProj = "apply" /\ ~Writes(msg[1])) ~> (skipped = 1 /\ pcProj = "read")
    /\ (<>[]streamUp) => []<>(pending = <<>> /\ handled = committed)

\* C18 witness: a record was skipped and the record after it was written
\* to the cache.
C18_Witness == skipped = 2 /\ cache # <<>> /\ handled >= 2

(***************************************************************************)
(* Properties of the restaurants service and its events                    *)
(***************************************************************************)
\* C14: every createRestaurant answered 201 has a restaurant.created event
\* on the stream and every deleteRestaurant answered 204 a
\* restaurant.deleted event, whether or not the stream write succeeded: the
\* last event on the stream from the service is the one of the last request
\* it answered so.
C14_EventPublished ==
    (lastRest # <<>> /\ lastRest[1].status \in {StatusCreated, StatusNoContent})
    => /\ lastRest[1].written
       /\ sent # <<>>
       /\ sent[1].op = lastRest[1].op
       /\ sent[1].rid = lastRest[1].id
       /\ sent[1].ev.type =
             (IF lastRest[1].op = "create" THEN "restaurant.created" ELSE "restaurant.deleted")

\* C16: once the consumer's store write for the restaurant.created event of
\* a createRestaurant has succeeded (and the service has written no event
\* since), the cache has an entry under the id the restaurants table
\* assigned to that restaurant, with the restaurant's name, city and seats; so
\* restaurants of distinct upstream ids have distinct entries.
C16_CachedUnderUpstreamId ==
    (sent # <<>> /\ sent[1].op = "create" /\ sent[1].applied)
    => /\ sent[1].rid \in DOMAIN cache
       /\ RowOf(sent[1].rid) =
             <<[name |-> sent[1].ev.name, city |-> sent[1].ev.city, seats |-> sent[1].ev.seats]>>

\* C17: once the consumer's store write for the restaurant.deleted event of
\* a deleteRestaurant(id) has succeeded (and the service has written no
\* event since), the cache has no entry for that id.
C17_DeletedLeavesCache ==
    (sent # <<>> /\ sent[1].op = "delete" /\ sent[1].applied)
    => sent[1].rid \notin DOMAIN cache

(***************************************************************************)
(* Properties of the bookings table under the whole system                 *)
(***************************************************************************)
\* C20: a booking is never mutated, and it leaves the table only in a step
\* that removes its restaurant from the restaurants table, which does
\* delete it; until then Get on its id is answered 200 with the id and the
\* fields its INSERT wrote, whatever Create, Get, List and applied stream
\* events came between.
C20_BookingImmutable ==
    /\ [][\A id \in DOMAIN bookings :
            IF id \in DOMAIN bookings'
            THEN bookings'[id] = bookings[id]
            ELSE /\ bookings[id].restaurant_id \in DOMAIN restaurants
                 /\ bookings[id].restaurant_id \notin DOMAIN restaurants']_vars
    /\ [](\A id \in DOMAIN bookings : bookings[id].restaurant_id \in DOMAIN restaurants)
    /\ [](\A i \in DOMAIN lastCreate :
            lastCreate[i].row \in DOMAIN bookings
                => bookings[lastCreate[i].row] = InsertRow(lastCreate[i].body))
    /\ [][(lastResp' # lastResp /\ lastResp'[1].op = "get") =>
            IF lastResp'[1].arg \in DOMAIN bookings
            THEN /\ lastResp'[1].status = StatusOK
                 /\ lastResp'[1].body = {ScanRow(lastResp'[1].arg)}
            ELSE lastResp'[1].status = StatusNotFound]_vars

\* C20 witness: a booking of restaurant 1 was created and read back, stream
\* events were applied, then restaurant 1 was removed upstream and the
\* booking went with it: Get on its id is answered 404.
C20_Witness ==
    /\ lastCreate # <<>>
    /\ lastCreate[1].row \notin DOMAIN bookings
    /\ 1 \notin DOMAIN restaurants
    /\ cache # <<>>
    /\ lastResp # <<>>
    /\ lastResp[1].op = "get"
    /\ lastResp[1].arg = lastCreate[1].row
    /\ lastResp[1].status = StatusNotFound

(***************************************************************************)
(* The two activities of the booking service and the tables they write     *)
(***************************************************************************)
\* C21: no step of the consumer (a read, a failed read, the wake-up after
\* it, the loop body on any record) and no step of the topic changes the
\* bookings table, and no step of the API (a create, its response, a get, a
\* list, a rejected request) changes restaurants_cache.
C21_DisjointTables ==
    /\ [][projVars' # projVars => bookings' = bookings]_vars
    /\ [][apiVars' # apiVars => cache' = cache]_vars

\* The consumer has applied the removal of restaurant 1 after a booking for
\* restaurant 1 was stored, the booking is still in the table, and the API
\* has since rejected a request.
C21_Witness ==
    /\ 1 \in DOMAIN bookings /\ bookings[1].restaurant_id = 1
    /\ 1 \in DOMAIN lastRec /\ lastRec[1].rec = Deleted(1)
    /\ lastResp # <<>> /\ lastResp[1].status = StatusUnauthorized

(***************************************************************************)
(* Properties of the notification service                                  *)
(***************************************************************************)
\* C22: a delivery whose call of the send-email function failed goes back
\* to the queue, to be delivered again.
C22_RequeuedOnFailure ==
    lastAck # <<>> /\ lastAck[1].outcome = "failed" => lastAck[1].back

(***************************************************************************)
(* The booking service when it is told to stop                             *)
(***************************************************************************)
\* C23: a termination signal never ends the process while the consumer is
\* between reading a record and the end of its loop body, nor while a
\* request is between its INSERT and its response.
C23_GracefulShutdown ==
    stopped # <<>> => stopped[1].proj # "apply" /\ ~stopped[1].inflight

(***************************************************************************)
(* The consumer when a store write fails                                   *)
(***************************************************************************)
\* C24: the loop body whose REPLACE or DELETE returned an error leaves the
\* cache as it was and goes on to read the next record, the failed record
\* is not put back on the topic and the committed offset never moves back,
\* so it is not read again; and the row of an id changes only in a loop body
\* whose store write for a record of that id succeeds, so what the failed
\* record would have written stays missing until such a record comes.
C24_FailedWriteDropped ==
    /\ [][(/\ pcProj = "apply"
            /\ Writes(msg[1])
            /\ handled' = handled + 1
            /\ lastRec' = lastRec)
           => /\ cache' = cache
              /\ pending' = pending
              /\ committed' = committed
              /\ msg' = <<>>
              /\ pcProj' = "read"]_vars
    /\ [][committed' >= committed]_vars
    /\ [][\A j \in DOMAIN cache \cup DOMAIN cache' :
            RowOf(j)' # RowOf(j)
            => /\ pcProj = "apply"
               /\ Writes(msg[1])
               /\ DecodeID(msg[1]) = j
               /\ lastRec' # lastRec]_vars

\* The restaurants service wrote a restaurant.created event, the consumer's
\* loop body has run on it without a successful store write, the consumer
\* is back at reading with nothing left to read, and the cache has no row
\* for that restaurant.
C24_Witness ==
    /\ sent # <<>>
    /\ sent[1].op = "create"
    /\ ~sent[1].applied
    /\ handled >= sent[1].off
    /\ pcProj = "read" /\ pending = <<>>
    /\ DecodeID(sent[1].ev) \notin DOMAIN cache

(***************************************************************************)
(* The user a booking is recorded under                                    *)
(***************************************************************************)
\* C25: the user of a stored booking is the user field of the body of the
\* request that created it, whoever the token of that request names: every
\* row created from the one body of this specification has that body's
\* user, under alice's token and under bob's alike.
C25_UserFromBody ==
    /\ \A i \in DOMAIN bookings : \A b \in OneBody : bookings[i].user = b.user
    /\ inflight # <<>> /\ inflight[1].row \in DOMAIN bookings
       => bookings[inflight[1].row].user = inflight[1].b.user
    /\ lastCreate # <<>> /\ lastCreate[1].row \in DOMAIN bookings
       => bookings[lastCreate[1].row].user = lastCreate[1].body.user

\* A request with bob's valid token was answered 201 and the booking it
\* stored is under the user alice of its body.
C25_Witness ==
    /\ lastResp # <<>>
    /\ lastResp[1].op = "create" /\ lastResp[1].status = StatusCreated
    /\ lastResp[1].hdr.token.sub = "bob"
    /\ lastCreate # <<>> /\ lastCreate[1].row \in DOMAIN bookings
    /\ bookings[lastCreate[1].row].user = "alice"

====
